---- MODULE Spec2Model ----
(***************************************************************************)
(* The authentication gateway of apps/api-gateway (routers/auth.py,        *)
(* routers/users.py, dependencies.py) as a state machine.                  *)
(*                                                                         *)
(* The handlers are asyncio coroutines of one process: a handler runs      *)
(* without interruption from one `await` of an outbound HTTP call to the   *)
(* next, so every action below is one such segment.  The calls made        *)
(* through the supabase client object (create_user, sign_in_with_password, *)
(* list_users, update_user_by_id, table().execute()) are synchronous and   *)
(* therefore part of the segment that makes them.  An awaited HTTP call    *)
(* takes two further steps: the provider handles it (the Provider         *)
(* actions), and the handler resumes with the response (the Resume         *)
(* actions).                                                               *)
(***************************************************************************)
EXTENDS Integers, Sequences, FiniteSets, TLC

----------------------------------------------------------------------------
(* Bounds of the model *)

\* codes the provider can issue in one behaviour (each issued code is fresh)
MaxCodes == 2
\* the clock runs from 0 to MaxTime minutes
MaxTime == 20
\* a submitted password holds up to MaxClassChars letters, digits and special
\* characters, and up to PASSWORD_MIN_LENGTH other characters after them
MaxClassChars == 3

(* Program constants *)

\* Settings.OTP_EXPIRY_MINUTES
OTP_EXPIRY_MINUTES == 10
\* SignUpRequest.password and ResetPasswordRequest.new_password: min_length
PASSWORD_MIN_LENGTH == 8

Emails == {"a@x"}
Codes == 1..MaxCodes
Passwords == {"p1", "p2"}
Conns == {"c1"}
Reqs == {"r1", "r2"}

\* PURPOSE_TO_SUPABASE_TYPE
PURPOSE_TO_SUPABASE_TYPE == [signup |-> "signup", reset |-> "recovery"]

Ops == {"signup", "verify_signup_otp", "signin", "signout", "forgot_password",
        "verify_reset_otp", "reset_password", "resend_otp", "me",
        "select_data_source"}

----------------------------------------------------------------------------
VARIABLES
    now,                    \* datetime.utcnow(), in minutes
    otp_request_state,      \* dict email -> {purpose} (requested_at is never read)
    verified_reset_tokens,  \* dict email -> {token_hash, expires}
    session,                \* per connection: request.session, a dict
    accounts,               \* provider: email -> "none" | "unverified" | "confirmed"
    password,               \* provider: email -> current password
    flag,                   \* provider: email -> user_metadata.has_selected_data_source
    otc,                    \* provider: dict email -> the one code still valid {code, type}
    nextCode,               \* provider: the next fresh code
    reqs,                   \* the requests in progress, per slot
    lost,                   \* history: the verified-reset entries the last restart
                            \* wiped, less those whose email was sent a code since
    pwUpdates,              \* history: <<email, code>> of the password updates made
    verifiedSignups         \* history: <<email, code>> verify_signup_otp returned 200 for

vars == <<now, otp_request_state, verified_reset_tokens, session, accounts,
          password, flag, otc, nextCode, reqs, lost, pwUpdates, verifiedSignups>>

gatewayVars == <<otp_request_state, verified_reset_tokens, session>>
providerVars == <<accounts, password, flag, otc, nextCode>>

----------------------------------------------------------------------------
(* Python dicts: a function whose domain is the set of keys present *)

Put(d, k, v) == [x \in (DOMAIN d) \cup {k} |-> IF x = k THEN v ELSE d[x]]
\* a pop that empties the dict
Pop_Cleared(d, k) == [x \in {} |-> 0]

Pop(d, k) == [x \in (DOMAIN d) \ {k} |-> d[x]]
EmptyDict == [x \in {} |-> 0]

\* hashlib.sha256(otp.encode()).hexdigest(): one-way and collision free on
\* the codes of the model; never equal to a raw code
Sha256(otp) == <<"sha256", otp>>

----------------------------------------------------------------------------
(* Requests *)

NoResp == [status |-> "none", body |-> "none"]

NoCall == [kind |-> "none", type |-> "none"]

IdleReq == [op |-> "none", email |-> "none", otp |-> 0, pw |-> "none",
            conn |-> "none", pc |-> "idle", stage |-> 0, call |-> NoCall,
            resp |-> NoResp, status |-> 0, detail |-> "none",
            check |-> "none", arrValid |-> FALSE, hadTracker |-> FALSE,
            first |-> "none", updEntry |-> "none",
            usedBefore |-> FALSE, stale |-> FALSE, lostValid |-> FALSE,
            twin |-> 0, out |-> "none", codeType |-> "none", db |-> "none",
            text |-> <<>>, errors |-> {}, overtaken |-> 0, nCreate |-> 0,
            nOtp |-> 0, nVerify |-> 0, nLookup |-> 0, nUpdate |-> 0]

UsesOtp(op) == op \in {"verify_signup_otp", "verify_reset_otp", "reset_password"}
UsesPw(op) == op \in {"signin"}
UsesConn(op) == op \in {"verify_signup_otp", "signin", "signout", "me",
                        "select_data_source"}
UsesEmail(op) == op \notin {"signout", "me", "select_data_source"}

----------------------------------------------------------------------------
(* Utility functions of routers/auth.py *)

track_otp_request(st, email, purpose) ==
    Put(st, email, [purpose |-> purpose])

\* a _record_verified_reset_token whose entry expires at once
record_verified_reset_token_NoWindow(tokens, email, otp) ==
    Put(tokens, email, [token_hash |-> Sha256(otp), expires |-> now])

record_verified_reset_token(tokens, email, otp) ==
    Put(tokens, email, [token_hash |-> Sha256(otp),
                        expires |-> now + OTP_EXPIRY_MINUTES])

\* a _ensure_reset_token_is_valid without the expiry test
ensure_reset_token_is_valid_NoExpiry(tokens, email, otp) ==
    IF email \notin DOMAIN tokens THEN "missing"
    ELSE IF tokens[email].token_hash # Sha256(otp) THEN "mismatched"
    ELSE "valid"

\* the outcome of _ensure_reset_token_is_valid: "valid" when it returns, else
\* which of its three HTTPException(400) it raises
ensure_reset_token_is_valid(tokens, email, otp) ==
    IF email \notin DOMAIN tokens THEN "missing"
    ELSE IF tokens[email].token_hash # Sha256(otp) THEN "mismatched"
    ELSE IF now > tokens[email].expires THEN "expired"
    ELSE "valid"

\* the cache after _ensure_reset_token_is_valid: the expired entry is popped
tokens_after_ensure(tokens, email, otp) ==
    IF ensure_reset_token_is_valid(tokens, email, otp) = "expired"
    THEN Pop(tokens, email) ELSE tokens

\* the detail of the HTTPException _ensure_reset_token_is_valid raises
EnsureDetail(outcome) ==
    CASE outcome = "missing" -> "reset_missing_or_expired"
      [] outcome = "mismatched" -> "invalid_code"
      [] outcome = "expired" -> "code_expired"
      [] OTHER -> "none"

\* a send_supabase_otp that returns normally on a rejected dispatch too
SendOtpStatus_RejectedPasses(st) ==
    CASE st \in {"ok", "c4xx"} -> 0
      [] st = "unauth" -> 500
      [] st = "s5xx" -> 400
      [] OTHER -> 500

\* send_supabase_otp's except clauses: the HTTPException it raises for a
\* response status class (0: it returns normally)
SendOtpStatus(st) ==
    CASE st = "ok" -> 0
      [] st = "unauth" -> 500
      [] st \in {"c4xx", "s5xx"} -> 400
      [] OTHER -> 500

SendOtpDetail(st) ==
    CASE st = "ok" -> "none"
      [] st = "unauth" -> "supabase_credentials_invalid"
      [] st \in {"c4xx", "s5xx"} -> "unable_to_send_code"
      [] OTHER -> "unable_to_send_try_later"

----------------------------------------------------------------------------
Init ==
    /\ now = 0
    /\ otp_request_state = EmptyDict
    /\ verified_reset_tokens = EmptyDict
    /\ session = [c \in Conns |-> EmptyDict]
    /\ accounts \in [Emails -> {"none", "unverified", "confirmed"}]
    /\ password = [e \in Emails |-> IF accounts[e] = "none" THEN "none" ELSE "p1"]
    /\ flag = [e \in Emails |-> "None"]
    /\ otc = EmptyDict
    /\ nextCode = 1
    /\ reqs = [r \in Reqs |-> IdleReq]
    /\ lost = EmptyDict
    /\ pwUpdates = {}
    /\ verifiedSignups = {}

----------------------------------------------------------------------------
(* A request's life: queued on arrival, then its handler's segments *)

NewReq(op, e, c, p, k) ==
    [IdleReq EXCEPT
        !.op = op,
        !.email = IF UsesEmail(op) THEN e ELSE "none",
        !.otp = IF UsesOtp(op) THEN c ELSE 0,
        !.pw = IF UsesPw(op) THEN p ELSE "none",
        !.conn = IF UsesConn(op) THEN k ELSE "none",
        !.pc = "queued",
        !.arrValid = /\ op = "reset_password"
                     /\ ensure_reset_token_is_valid(verified_reset_tokens, e, c) = "valid"]

\* the handler returns or raises: the response goes out
Finish(rq, status, detail) ==
    [rq EXCEPT !.pc = "done", !.status = status, !.detail = detail,
               \* (history: a reset_password with this email and code had
               \* already updated the password)
               !.usedBefore =
                   \/ /\ rq.op = "reset_password"
                      /\ <<rq.email, rq.otp>> \in pwUpdates
                   \* (history: or a verify_signup_otp with them had returned 200)
                   \/ /\ rq.op = "verify_signup_otp"
                      /\ <<rq.email, rq.otp>> \in verifiedSignups]

\* the handler awaits client.post(...) to /auth/v1/otp or /auth/v1/verify
Send(rq, kind, type, stage) ==
    [rq EXCEPT !.pc = "sent", !.call = [kind |-> kind, type |-> type],
               !.stage = stage, !.resp = NoResp,
               !.nOtp = IF kind = "otp" THEN @ + 1 ELSE @,
               !.nVerify = IF kind = "verify" THEN @ + 1 ELSE @]

\* a finished handler's response goes out before anything else runs: the
\* return and the start of the response are one segment
NoneDone == \A q \in Reqs : reqs[q].pc # "done"

Queued(r, op) == NoneDone /\ reqs[r].pc = "queued" /\ reqs[r].op = op
Replied(r, op) == NoneDone /\ reqs[r].pc = "replied" /\ reqs[r].op = op

\* the response is sent and the request is over
\* (history: a reset_password still pending for the same email and code, both
\* received while the cache held a valid entry for it, notes this one's status)
Twins(q, r) ==
    /\ q # r
    /\ reqs[q].op = "reset_password" /\ reqs[r].op = "reset_password"
    /\ reqs[q].email = reqs[r].email /\ reqs[q].otp = reqs[r].otp
    /\ reqs[q].arrValid /\ reqs[r].arrValid
    /\ reqs[q].pc \in {"queued", "sent", "replied"}

Respond(r) ==
    /\ reqs[r].pc = "done"
    /\ reqs' = [q \in Reqs |->
                  IF q = r THEN IdleReq
                  ELSE IF Twins(q, r) THEN [reqs[q] EXCEPT !.twin = reqs[r].status]
                  ELSE reqs[q]]
    /\ UNCHANGED <<now, gatewayVars, providerVars, lost, pwUpdates, verifiedSignups>>

\* a client sends a request
Receive(r, ops) ==
    /\ NoneDone
    /\ reqs[r].pc = "idle"
    /\ \E op \in ops, e \in Emails, c \in Codes, p \in Passwords, k \in Conns :
          reqs' = [reqs EXCEPT ![r] = NewReq(op, e, c, p, k)]
    /\ UNCHANGED <<now, gatewayVars, providerVars, lost, pwUpdates, verifiedSignups>>

----------------------------------------------------------------------------
(* The identity provider's side of the two awaited REST calls *)

\* whether the provider sends a code of this type to this email
DispatchAccepted(e, type) ==
    \/ type = "recovery" /\ accounts[e] = "confirmed"
    \/ type = "signup" /\ accounts[e] = "unverified"

\* what a 2xx /auth/v1/verify body may hold
VerifyBodies(type) ==
    IF type = "signup" THEN {"full", "nouser", "noid", "noemail"} ELSE {"full"}

\* POST /auth/v1/otp: a fresh code replaces the email's code, or a failure
ProviderOtp(r) ==
    /\ NoneDone
    /\ reqs[r].pc = "sent" /\ reqs[r].call.kind = "otp"
    /\ LET e == reqs[r].email
           ty == reqs[r].call.type
       IN \/ /\ DispatchAccepted(e, ty)
             /\ nextCode <= MaxCodes
             /\ otc' = Put(otc, e, [code |-> nextCode, type |-> ty])
             /\ nextCode' = nextCode + 1
             /\ lost' = Pop(lost, e)
             /\ reqs' = [reqs EXCEPT ![r].pc = "replied",
                                     ![r].resp = [status |-> "ok", body |-> "none"]]
          \/ /\ \E st \in {"c4xx", "unauth", "s5xx", "neterr"} :
                   reqs' = [reqs EXCEPT ![r].pc = "replied",
                                        ![r].resp = [status |-> st, body |-> "none"]]
             /\ UNCHANGED <<otc, nextCode, lost>>
    /\ UNCHANGED <<now, gatewayVars, accounts, password, flag, pwUpdates,
                   verifiedSignups>>

\* POST /auth/v1/verify: the email's code is confirmed once, or a failure
ProviderVerify(r) ==
    /\ NoneDone
    /\ reqs[r].pc = "sent" /\ reqs[r].call.kind = "verify"
    /\ LET e == reqs[r].email
           c == reqs[r].otp
           ty == reqs[r].call.type
       IN \/ /\ e \in DOMAIN otc
             /\ otc[e] = [code |-> c, type |-> ty]
             /\ otc' = Pop(otc, e)
             /\ accounts' = IF ty = "signup" THEN [accounts EXCEPT ![e] = "confirmed"]
                            ELSE accounts
             /\ \E b \in VerifyBodies(ty) :
                   reqs' = [reqs EXCEPT ![r].pc = "replied",
                                        ![r].resp = [status |-> "ok", body |-> b],
                                        \* (history: what the code was sent for)
                                        ![r].codeType = otc[e].type]
          \/ /\ \E st \in {"httperr", "neterr"} :
                   reqs' = [reqs EXCEPT ![r].pc = "replied",
                                        ![r].resp = [status |-> st, body |-> "none"]]
             /\ UNCHANGED <<otc, accounts>>
    /\ UNCHANGED <<now, gatewayVars, password, flag, nextCode, lost, pwUpdates, verifiedSignups>>

----------------------------------------------------------------------------
(* Password reset: forgot_password, verify_reset_otp, reset_password,      *)
(* resend_otp                                                              *)

\* a verify_supabase_otp that returns the error response's body instead of {}
VerifyResult_ErrorBody(resp) ==
    CASE resp.status \in {"ok", "httperr"} -> "present"
      [] OTHER -> "error"

\* verify_supabase_otp's result for a response: the body ("present"), {}
\* after an HTTPStatusError ("absent"), or its HTTPException(500) ("error")
VerifyResult(resp) ==
    CASE resp.status = "ok" -> "present"
      [] resp.status = "httperr" -> "absent"
      [] OTHER -> "error"

\* a forgot_password that tests for the wrong status and so swallows nothing
ForgotSwallows_NotFound(st) == st = 404

\* a forgot_password without its `else: raise`
ForgotSwallows_Any(st) == st # 0

\* forgot_password's `if exc.status_code == status.HTTP_400_BAD_REQUEST`:
\* whether it swallows send_supabase_otp's HTTPException
ForgotSwallows(st) == st = 400

\* forgot_password up to its await of send_supabase_otp(purpose="reset")
StartForgot(r) ==
    /\ Queued(r, "forgot_password")
    /\ reqs' = [reqs EXCEPT ![r] = Send(@, "otp", PURPOSE_TO_SUPABASE_TYPE["reset"], 1)]
    /\ UNCHANGED <<now, gatewayVars, providerVars, lost, pwUpdates, verifiedSignups>>

\* forgot_password from a response on: stage 1 is the reset dispatch,
\* stage 2 the signup dispatch of the except branch
ResumeForgot(r) ==
    /\ Replied(r, "forgot_password")
    /\ LET rq == reqs[r]
           st == SendOtpStatus(rq.resp.status)
       IN IF rq.stage = 1
          THEN CASE st = 0 ->
                      /\ otp_request_state' =
                             track_otp_request(otp_request_state, rq.email, "reset")
                      /\ reqs' = [reqs EXCEPT ![r] =
                             Finish([rq EXCEPT !.first = rq.resp.status],
                                    200, "if_account_exists")]
                 [] ForgotSwallows(st) ->
                      /\ reqs' = [reqs EXCEPT ![r] =
                             Send([rq EXCEPT !.first = rq.resp.status],
                                  "otp", PURPOSE_TO_SUPABASE_TYPE["signup"], 2)]
                      /\ UNCHANGED otp_request_state
                 [] OTHER ->
                      /\ reqs' = [reqs EXCEPT ![r] =
                             Finish([rq EXCEPT !.first = rq.resp.status],
                                    st, SendOtpDetail(rq.resp.status))]
                      /\ UNCHANGED otp_request_state
          ELSE /\ otp_request_state' =
                      IF st = 0
                      THEN track_otp_request(otp_request_state, rq.email, "signup")
                      ELSE otp_request_state
               /\ reqs' = [reqs EXCEPT ![r] = Finish(rq, 200, "if_account_exists")]
    /\ UNCHANGED <<now, verified_reset_tokens, session, providerVars, lost, pwUpdates, verifiedSignups>>

\* a verify_reset_otp that calls verify_supabase_otp without purpose="reset",
\* so with the parameter's default
StartVerifyReset_DefaultPurpose(r) ==
    /\ Queued(r, "verify_reset_otp")
    /\ reqs' = [reqs EXCEPT ![r] =
                   Send(@, "verify", PURPOSE_TO_SUPABASE_TYPE["signup"], 1)]
    /\ UNCHANGED <<now, gatewayVars, providerVars, lost, pwUpdates, verifiedSignups>>

\* verify_reset_otp up to its await of verify_supabase_otp(purpose="reset")
StartVerifyReset(r) ==
    /\ Queued(r, "verify_reset_otp")
    /\ reqs' = [reqs EXCEPT ![r] =
                   Send(@, "verify", PURPOSE_TO_SUPABASE_TYPE["reset"], 1)]
    /\ UNCHANGED <<now, gatewayVars, providerVars, lost, pwUpdates, verifiedSignups>>

\* a verify_reset_otp that calls the provider once more when the call failed
ResumeVerifyReset_Retry(r) ==
    /\ Replied(r, "verify_reset_otp")
    /\ reqs[r].nVerify < 2
    /\ VerifyResult(reqs[r].resp) = "error"
    /\ reqs' = [reqs EXCEPT ![r] =
                   Send(@, "verify", PURPOSE_TO_SUPABASE_TYPE["reset"], 1)]
    /\ UNCHANGED <<now, gatewayVars, providerVars, lost, pwUpdates, verifiedSignups>>

ResumeVerifyReset(r) ==
    /\ Replied(r, "verify_reset_otp")
    /\ LET rq == reqs[r]
           vr == VerifyResult(rq.resp)
       IN CASE vr = "error" ->
                 /\ reqs' = [reqs EXCEPT ![r] = Finish(rq, 500, "verification_unavailable")]
                 /\ UNCHANGED <<otp_request_state, verified_reset_tokens>>
            [] vr = "absent" ->
                 /\ reqs' = [reqs EXCEPT ![r] = Finish(rq, 400, "invalid_or_expired_code")]
                 /\ UNCHANGED <<otp_request_state, verified_reset_tokens>>
            [] OTHER ->
                 /\ verified_reset_tokens' =
                        record_verified_reset_token(verified_reset_tokens, rq.email, rq.otp)
                 /\ otp_request_state' = Pop(otp_request_state, rq.email)
                 \* (history: a reset_password awaiting its fallback for the
                 \* same email and an older code notes the code recorded meanwhile)
                 /\ reqs' = [q \in Reqs |->
                        IF q = r THEN Finish(rq, 200, "code_confirmed")
                        ELSE IF /\ reqs[q].op = "reset_password"
                                /\ reqs[q].pc \in {"sent", "replied"}
                                /\ reqs[q].email = rq.email /\ reqs[q].otp < rq.otp
                        THEN [reqs[q] EXCEPT !.overtaken = rq.otp]
                        \* (history: and so does a resend_otp awaiting its
                        \* dispatch for the same email)
                        ELSE IF /\ reqs[q].op = "resend_otp"
                                /\ reqs[q].pc \in {"sent", "replied"}
                                /\ reqs[q].email = rq.email
                        THEN [reqs[q] EXCEPT !.overtaken = rq.otp]
                        ELSE reqs[q]]
    /\ UNCHANGED <<now, session, providerVars, lost, pwUpdates, verifiedSignups>>

\* a reset_password without `if not verification: raise`
FallbackProceeds_Unchecked(vr) == TRUE

\* whether reset_password goes on to the password update after the fallback's
\* verify_supabase_otp: `if not verification: raise`
FallbackProceeds(vr) == vr = "present"

\* whether reset_password's `except HTTPException` runs for a check outcome
FallbackTaken(outcome) == outcome # "valid"

\* a reset_password that leaves the entry in the cache after the update
tokens_after_update_NoPop(tokens, email) == tokens

\* reset_password after update_user_by_id: verified_reset_tokens.pop(email, None)
tokens_after_update(tokens, email) == Pop(tokens, email)

\* a reset_password without `except HTTPException: raise` in its second try
\* block, whose `except Exception` then turns the 404 into its 500
ResetLookupStatus_Converted(lookup) == 500

\* reset_password's status when its user lookup does not give a user: the 404
\* of `if not user_data` ("notfound"), re-raised, or the 500 of the
\* `except Exception` clause when list_users raises
ResetLookupStatus(lookup) == IF lookup = "notfound" THEN 404 ELSE 500

\* reset_password's second try block: list_users, update_user_by_id, pop.
\* tokens is the cache as the first block leaves it.
ResetTail(r, rq, tokens) ==
    \E lookup \in {"found", "notfound", "exception"} :
       /\ lookup = "found" => accounts[rq.email] # "none"
       /\ LET rl == [rq EXCEPT !.nLookup = @ + 1, !.out = lookup]
              \* (history: the cache check's answer at the moment of the update call)
              ru == [rl EXCEPT !.nUpdate = @ + 1,
                               !.updEntry = ensure_reset_token_is_valid(
                                                tokens, rq.email, rq.otp)]
          IN CASE lookup = "notfound" ->
                    /\ reqs' = [reqs EXCEPT ![r] =
                           Finish(rl, ResetLookupStatus(lookup), "user_not_found")]
                    /\ verified_reset_tokens' = tokens
                    /\ UNCHANGED <<password, pwUpdates>>
               [] lookup = "exception" ->
                    /\ reqs' = [reqs EXCEPT ![r] =
                           Finish(rl, ResetLookupStatus(lookup), "password_reset_failed")]
                    /\ verified_reset_tokens' = tokens
                    /\ UNCHANGED <<password, pwUpdates>>
               [] OTHER ->
                    \E upd \in {"ok", "exception"} :
                       IF upd = "ok"
                       THEN /\ password' = [password EXCEPT ![rq.email] = "p2"]
                            /\ pwUpdates' = pwUpdates \cup {<<rq.email, rq.otp>>}
                            /\ verified_reset_tokens' = tokens_after_update(tokens, rq.email)
                            /\ reqs' = [reqs EXCEPT ![r] =
                                   Finish(ru, 200, "password_reset_successful")]
                       ELSE /\ reqs' = [reqs EXCEPT ![r] =
                                   Finish(ru, 500, "password_reset_failed")]
                            /\ verified_reset_tokens' = tokens
                            /\ UNCHANGED <<password, pwUpdates>>

\* reset_password up to its first await, or to its end when the check passes
StartReset(r) ==
    /\ Queued(r, "reset_password")
    /\ LET outcome == ensure_reset_token_is_valid(
                          verified_reset_tokens, reqs[r].email, reqs[r].otp)
           tokens == tokens_after_ensure(
                          verified_reset_tokens, reqs[r].email, reqs[r].otp)
           e == reqs[r].email
           c == reqs[r].otp
           \* (history, for the claims: what held when the handler started)
           rq == [reqs[r] EXCEPT
                     !.check = outcome,
                     !.stale = /\ e \in DOMAIN verified_reset_tokens
                               /\ verified_reset_tokens[e].token_hash = Sha256(c)
                               /\ now > verified_reset_tokens[e].expires,
                     !.lostValid = /\ e \notin DOMAIN verified_reset_tokens
                                   /\ e \in DOMAIN lost
                                   /\ lost[e].token_hash = Sha256(c)
                                   /\ now <= lost[e].expires
                                   /\ <<e, c>> \notin pwUpdates]
       IN IF FallbackTaken(outcome)
          THEN /\ verified_reset_tokens' = tokens
               /\ reqs' = [reqs EXCEPT ![r] =
                      Send(rq, "verify", PURPOSE_TO_SUPABASE_TYPE["reset"], 1)]
               /\ UNCHANGED <<password, pwUpdates>>
          ELSE ResetTail(r, rq, tokens)
    /\ UNCHANGED <<now, otp_request_state, session, accounts, flag, otc, nextCode,
                   lost, verifiedSignups>>

\* reset_password after the fallback's verify_supabase_otp
ResumeReset(r) ==
    /\ Replied(r, "reset_password")
    /\ LET rq == reqs[r]
           vr == VerifyResult(rq.resp)
       IN IF vr = "error"
          THEN /\ reqs' = [reqs EXCEPT ![r] = Finish(rq, 500, "verification_unavailable")]
               /\ UNCHANGED <<verified_reset_tokens, password, pwUpdates>>
          ELSE IF FallbackProceeds(vr)
          THEN ResetTail(r, rq, record_verified_reset_token(
                                    verified_reset_tokens, rq.email, rq.otp))
          ELSE /\ reqs' = [reqs EXCEPT ![r] = Finish(rq, 400, EnsureDetail(rq.check))]
               /\ UNCHANGED <<verified_reset_tokens, password, pwUpdates>>
    /\ UNCHANGED <<now, otp_request_state, session, accounts, flag, otc, nextCode,
                   lost, verifiedSignups>>

\* a resend_otp that calls send_supabase_otp without the recorded purpose, so
\* with the parameter's default
PendingPurpose_Default(st, email) ==
    IF email \in DOMAIN st THEN "signup" ELSE "none"

\* a resend_otp that infers a reset purpose from the verified-reset cache
PendingPurpose_Inferred(st, email) ==
    IF email \in DOMAIN st THEN st[email].purpose
    ELSE IF email \in DOMAIN verified_reset_tokens THEN "reset"
    ELSE "none"

\* resend_otp's otp_request_state.get(email) and existing_otp["purpose"]:
\* the purpose to resend under, "none" when the tracker has no entry
PendingPurpose(st, email) ==
    IF email \in DOMAIN st THEN st[email].purpose ELSE "none"

\* resend_otp up to its await of send_supabase_otp, or to its 400
StartResend(r) ==
    /\ Queued(r, "resend_otp")
    /\ LET rq == [reqs[r] EXCEPT !.hadTracker = reqs[r].email \in DOMAIN otp_request_state]
           purpose == PendingPurpose(otp_request_state, rq.email)
       IN IF purpose = "none"
          THEN reqs' = [reqs EXCEPT ![r] = Finish(rq, 400, "no_pending_verification")]
          ELSE reqs' = [reqs EXCEPT ![r] =
                   Send(rq, "otp", PURPOSE_TO_SUPABASE_TYPE[purpose], 1)]
    /\ UNCHANGED <<now, gatewayVars, providerVars, lost, pwUpdates, verifiedSignups>>

\* the purpose send_supabase_otp was called with, from the type it sent
PurposeOfType(type) == IF type = "signup" THEN "signup" ELSE "reset"

ResumeResend(r) ==
    /\ Replied(r, "resend_otp")
    /\ LET rq == reqs[r]
           st == SendOtpStatus(rq.resp.status)
       IN IF st = 0
          THEN /\ otp_request_state' = track_otp_request(
                      otp_request_state, rq.email, PurposeOfType(rq.call.type))
               /\ reqs' = [reqs EXCEPT ![r] = Finish(rq, 200, "code_resent")]
          ELSE /\ reqs' = [reqs EXCEPT ![r] = Finish(rq, st, SendOtpDetail(rq.resp.status))]
               /\ UNCHANGED otp_request_state
    /\ UNCHANGED <<now, verified_reset_tokens, session, providerVars, lost, pwUpdates, verifiedSignups>>

----------------------------------------------------------------------------
(* Signup, verification, sign-in and the session *)

\* the provider's user id of an account
Uid(e) == "uid:" \o e
EmailOfUid(uid) == CHOOSE e \in Emails : Uid(e) = uid

\* _coerce_bool on the values the model passes: True, False, None
coerce_bool(v) == v = "True"

\* the session record both verify_signup_otp and signin build
SessionRecord(uid, email, src, sel) ==
    [user_id |-> uid, email |-> email, role |-> src \o "_role",
     name |-> src \o "_name", department |-> src \o "_department",
     has_selected_data_source |-> sel]

\* dependencies.set_session_data(request, "user", value)
set_session_data(sess, conn, value) ==
    [sess EXCEPT ![conn] = Put(@, "user", value)]

\* a clear_session that leaves the session as it is
clear_session_Kept(sess, conn) == sess

\* dependencies.clear_session(request)
clear_session(sess, conn) == [sess EXCEPT ![conn] = EmptyDict]

\* dependencies.get_current_user: the session's user, or its 401
HasUser(conn) == "user" \in DOMAIN session[conn]

\* signup up to its await of send_supabase_otp: create_user, and the
\* AuthApiError branches
StartSignup(r) ==
    /\ Queued(r, "signup")
    /\ LET rq == [reqs[r] EXCEPT !.nCreate = @ + 1]
       IN \E out \in {"created", "exists", "unauth", "apierror", "exception"} :
             /\ out = "created" => accounts[rq.email] = "none"
             /\ out = "exists" => accounts[rq.email] # "none"
             /\ CASE out = "created" ->
                       /\ accounts' = [accounts EXCEPT ![rq.email] = "unverified"]
                       /\ password' = [password EXCEPT ![rq.email] = "p1"]
                       /\ reqs' = [reqs EXCEPT ![r] =
                              Send(rq, "otp", PURPOSE_TO_SUPABASE_TYPE["signup"], 1)]
                  [] out = "exists" ->
                       /\ reqs' = [reqs EXCEPT ![r] =
                              Send(rq, "otp", PURPOSE_TO_SUPABASE_TYPE["signup"], 2)]
                       /\ UNCHANGED <<accounts, password>>
                  [] out = "unauth" ->
                       /\ reqs' = [reqs EXCEPT ![r] = Finish(rq, 500, "service_key_invalid")]
                       /\ UNCHANGED <<accounts, password>>
                  [] out = "apierror" ->
                       /\ reqs' = [reqs EXCEPT ![r] = Finish(rq, 400, "registration_failed")]
                       /\ UNCHANGED <<accounts, password>>
                  [] OTHER ->
                       /\ reqs' = [reqs EXCEPT ![r] =
                              Finish(rq, 500, "registration_failed_try_again")]
                       /\ UNCHANGED <<accounts, password>>
    /\ UNCHANGED <<now, gatewayVars, flag, otc, nextCode, lost, pwUpdates, verifiedSignups>>

\* signup after send_supabase_otp: stage 1 follows create_user, stage 2 the
\* "already registered" AuthApiError
ResumeSignup(r) ==
    /\ Replied(r, "signup")
    /\ LET rq == reqs[r]
           st == SendOtpStatus(rq.resp.status)
       IN IF st = 0
          THEN /\ otp_request_state' =
                      track_otp_request(otp_request_state, rq.email, "signup")
               /\ reqs' = [reqs EXCEPT ![r] =
                      Finish(rq, 201, IF rq.stage = 1 THEN "registration_successful"
                                      ELSE "already_registered")]
          ELSE /\ reqs' = [reqs EXCEPT ![r] = Finish(rq, st, SendOtpDetail(rq.resp.status))]
               /\ UNCHANGED otp_request_state
    /\ UNCHANGED <<now, verified_reset_tokens, session, providerVars, lost, pwUpdates, verifiedSignups>>

\* verify_signup_otp up to its await of verify_supabase_otp(purpose="signup")
StartVerifySignup(r) ==
    /\ Queued(r, "verify_signup_otp")
    /\ reqs' = [reqs EXCEPT ![r] =
                   Send(@, "verify", PURPOSE_TO_SUPABASE_TYPE["signup"], 1)]
    /\ UNCHANGED <<now, gatewayVars, providerVars, lost, pwUpdates, verifiedSignups>>

\* a verify_signup_otp that checks user_id only
UserDataComplete_IdOnly(body) == body # "noid"

\* a verify_signup_otp without the check of user_id and email
UserDataComplete_Unchecked(body) == TRUE

\* whether verify_signup_otp finds the user data complete:
\* `if not session_metadata["user_id"] or not session_metadata["email"]`
UserDataComplete(body) == body \notin {"noid", "noemail"}

ResumeVerifySignup(r) ==
    /\ Replied(r, "verify_signup_otp")
    /\ LET rq == reqs[r]
           vr == VerifyResult(rq.resp)
       IN CASE vr = "error" ->
                 /\ reqs' = [reqs EXCEPT ![r] = Finish(rq, 500, "verification_unavailable")]
                 /\ UNCHANGED <<otp_request_state, session>>
            [] vr = "absent" ->
                 /\ reqs' = [reqs EXCEPT ![r] = Finish(rq, 400, "invalid_or_expired_code")]
                 /\ UNCHANGED <<otp_request_state, session>>
            [] vr = "present" /\ rq.resp.body = "nouser" ->
                 /\ reqs' = [reqs EXCEPT ![r] = Finish(rq, 500, "no_user_information")]
                 /\ UNCHANGED <<otp_request_state, session>>
            [] OTHER ->
                 /\ otp_request_state' = Pop(otp_request_state, rq.email)
                 /\ IF UserDataComplete(rq.resp.body)
                    THEN /\ session' = set_session_data(session, rq.conn,
                                SessionRecord(Uid(rq.email), rq.email, "meta",
                                              coerce_bool(flag[rq.email])))
                         /\ reqs' = [reqs EXCEPT ![r] = Finish(rq, 200, "email_verified")]
                    ELSE /\ reqs' = [reqs EXCEPT ![r] =
                                Finish(rq, 500, "incomplete_user_data")]
                         /\ UNCHANGED session
    /\ verifiedSignups' =
           IF reqs'[r].status = 200
           THEN verifiedSignups \cup {<<reqs[r].email, reqs[r].otp>>}
           ELSE verifiedSignups
    /\ UNCHANGED <<now, verified_reset_tokens, providerVars, lost, pwUpdates>>

\* whether signin lets a returned user in: `if not user.email_confirmed_at`
EmailConfirmed(e) == accounts[e] = "confirmed"

\* a signin without `except HTTPException: raise`, whose `except Exception`
\* then turns every HTTPException into its 400
SigninRaised_Converted(st) == 400

\* signin's `except HTTPException: raise`: the status an HTTPException raised
\* in its try block leaves with
SigninRaised(st) == st

\* a signin whose `except Exception` answers 500, as the other handlers' do
SigninRejects_ServerError(out) == IF out = "nouser" THEN 400 ELSE 500

\* signin's status when sign_in_with_password returns no user ("nouser": the
\* HTTPException of `if not auth_response.user`) or raises ("exception": the
\* `except Exception` clause)
SigninRejects(out) == IF out = "nouser" THEN SigninRaised(400) ELSE 400

\* a signin that reads role, name and department from the users table only
ProfileSource_TableOnly(db) == "db"

\* where signin takes role, name and department from: the users-table record
\* when the query returned one ("record"), else user_metadata, both when the
\* query returned nothing ("empty") and when it raised ("exception")
ProfileSource(db) == IF db = "record" THEN "db" ELSE "meta"

\* signin: sign_in_with_password, the users-table lookup, the session
Signin(r) ==
    /\ Queued(r, "signin")
    /\ \E out \in {"user", "nouser", "exception"} :
          LET rq == [reqs[r] EXCEPT !.out = out]
          IN /\ out = "user" => /\ accounts[rq.email] # "none"
                                /\ password[rq.email] = rq.pw
             /\ IF out # "user"
                THEN /\ reqs' = [reqs EXCEPT ![r] =
                            Finish(rq, SigninRejects(out), "invalid_email_or_password")]
                     /\ UNCHANGED session
                ELSE IF ~EmailConfirmed(rq.email)
                THEN /\ reqs' = [reqs EXCEPT ![r] =
                            Finish(rq, SigninRaised(403), "verify_your_email")]
                     /\ UNCHANGED session
                ELSE \E db \in {"record", "empty", "exception"},
                        dbsel \in {"absent", "True", "None"} :
                        /\ db # "record" => dbsel = "absent"
                        /\ session' = set_session_data(session, rq.conn,
                               SessionRecord(Uid(rq.email), rq.email,
                                   ProfileSource(db),
                                   IF dbsel = "absent" THEN coerce_bool(flag[rq.email])
                                   ELSE coerce_bool(dbsel)))
                        /\ reqs' = [reqs EXCEPT ![r] =
                               Finish([rq EXCEPT !.db = db], 200, "sign_in_successful")]
    /\ UNCHANGED <<now, otp_request_state, verified_reset_tokens, providerVars, lost, pwUpdates, verifiedSignups>>

\* signout, behind Depends(get_current_user)
Signout(r) ==
    /\ Queued(r, "signout")
    /\ IF HasUser(reqs[r].conn)
       THEN /\ session' = clear_session(session, reqs[r].conn)
            /\ reqs' = [reqs EXCEPT ![r] = Finish(@, 200, "sign_out_successful")]
       ELSE /\ reqs' = [reqs EXCEPT ![r] = Finish(@, 401, "not_authenticated")]
            /\ UNCHANGED session
    /\ UNCHANGED <<now, otp_request_state, verified_reset_tokens, providerVars, lost, pwUpdates, verifiedSignups>>

\* GET /me, behind Depends(get_current_user)
Me(r) ==
    /\ Queued(r, "me")
    /\ reqs' = [reqs EXCEPT ![r] =
                   IF HasUser(reqs[r].conn) THEN Finish(@, 200, "user_info")
                   ELSE Finish(@, 401, "not_authenticated")]
    /\ UNCHANGED <<now, gatewayVars, providerVars, lost, pwUpdates, verifiedSignups>>

\* a select_data_source that stores a new record holding the flag instead of
\* changing the one it read
patched_session_Replaced(user_session) ==
    [user_id |-> user_session.user_id, email |-> user_session.email,
     role |-> "None", name |-> "None", department |-> "None",
     has_selected_data_source |-> TRUE]

\* select_data_source's record for the session:
\* user_session["has_selected_data_source"] = True
patched_session(user_session) ==
    [user_session EXCEPT !.has_selected_data_source = TRUE]

\* users.select_data_source: the provider's metadata, then the session's flag
SelectDataSource(r) ==
    /\ Queued(r, "select_data_source")
    /\ LET rq == reqs[r]
       IN IF ~HasUser(rq.conn)
          THEN /\ reqs' = [reqs EXCEPT ![r] = Finish(rq, 401, "not_authenticated")]
               /\ UNCHANGED <<session, flag>>
          ELSE \E upd \in {"ok", "exception"} :
                  IF upd = "ok"
                  THEN /\ flag' = [flag EXCEPT
                              ![EmailOfUid(session[rq.conn]["user"].user_id)] = "True"]
                       /\ session' = set_session_data(session, rq.conn,
                              patched_session(session[rq.conn]["user"]))
                       /\ reqs' = [reqs EXCEPT ![r] =
                              Finish([rq EXCEPT !.out = upd],
                                     200, "data_source_recorded")]
                  ELSE /\ reqs' = [reqs EXCEPT ![r] =
                              Finish([rq EXCEPT !.out = upd],
                                     500, "data_source_update_failed")]
                       /\ UNCHANGED <<session, flag>>
    /\ UNCHANGED <<now, otp_request_state, verified_reset_tokens, accounts, password,
                   otc, nextCode, lost, pwUpdates, verifiedSignups>>

----------------------------------------------------------------------------
(* Time and the process *)

Tick ==
    /\ NoneDone
    /\ now + OTP_EXPIRY_MINUTES <= MaxTime
    /\ now' = now + OTP_EXPIRY_MINUTES
    /\ UNCHANGED <<gatewayVars, providerVars, reqs, lost, pwUpdates, verifiedSignups>>

\* the process restarts: the two module-level dicts start empty again and
\* the requests it was serving are gone; the session cookies survive
Restart ==
    /\ NoneDone
    /\ otp_request_state' = EmptyDict
    /\ verified_reset_tokens' = EmptyDict
    /\ reqs' = [r \in Reqs |-> IdleReq]
    /\ lost' = verified_reset_tokens
    /\ UNCHANGED <<now, session, providerVars, pwUpdates, verifiedSignups>>

\* the operations of the password-reset flow
ResetOps == {"forgot_password", "verify_reset_otp", "reset_password"}

\* every operation, one request at a time
Next ==
    \/ Receive("r1", Ops)
    \/ Respond("r1")
    \/ ProviderOtp("r1")
    \/ ProviderVerify("r1")
    \/ StartSignup("r1")
    \/ ResumeSignup("r1")
    \/ StartVerifySignup("r1")
    \/ ResumeVerifySignup("r1")
    \/ Signin("r1")
    \/ Signout("r1")
    \/ Me("r1")
    \/ SelectDataSource("r1")
    \/ StartForgot("r1")
    \/ ResumeForgot("r1")
    \/ StartVerifyReset("r1")
    \/ ResumeVerifyReset("r1")
    \/ StartReset("r1")
    \/ ResumeReset("r1")
    \/ StartResend("r1")
    \/ ResumeResend("r1")
    \/ Tick
    \/ Restart

Spec == Init /\ [][Next]_vars

\* forgot_password, verify_reset_otp and reset_password, two requests at a time
NextConcurrent ==
    \/ \E r \in Reqs : Receive(r, ResetOps)
    \/ \E r \in Reqs : Respond(r)
    \/ \E r \in Reqs : ProviderOtp(r)
    \/ \E r \in Reqs : ProviderVerify(r)
    \/ \E r \in Reqs : StartForgot(r)
    \/ \E r \in Reqs : ResumeForgot(r)
    \/ \E r \in Reqs : StartVerifyReset(r)
    \/ \E r \in Reqs : ResumeVerifyReset(r)
    \/ \E r \in Reqs : StartReset(r)
    \/ \E r \in Reqs : ResumeReset(r)
    \/ Tick

SpecConcurrent == Init /\ [][NextConcurrent]_vars

\* the operations that send a signup code or consume one, and forgot_password
DispatchOps == {"signup", "verify_signup_otp", "forgot_password"}

\* signup, verify_signup_otp and forgot_password, two requests at a time
NextDispatch ==
    \/ \E r \in Reqs : Receive(r, DispatchOps)
    \/ \E r \in Reqs : Respond(r)
    \/ \E r \in Reqs : ProviderOtp(r)
    \/ \E r \in Reqs : ProviderVerify(r)
    \/ \E r \in Reqs : StartSignup(r)
    \/ \E r \in Reqs : ResumeSignup(r)
    \/ \E r \in Reqs : StartVerifySignup(r)
    \/ \E r \in Reqs : ResumeVerifySignup(r)
    \/ \E r \in Reqs : StartForgot(r)
    \/ \E r \in Reqs : ResumeForgot(r)

SpecDispatch == Init /\ [][NextDispatch]_vars

\* the operations of the reset flow that touch the tracker
ResendOps == {"forgot_password", "verify_reset_otp", "resend_otp"}

\* forgot_password, verify_reset_otp and resend_otp, two requests at a time
NextResend ==
    \/ \E r \in Reqs : Receive(r, ResendOps)
    \/ \E r \in Reqs : Respond(r)
    \/ \E r \in Reqs : ProviderOtp(r)
    \/ \E r \in Reqs : ProviderVerify(r)
    \/ \E r \in Reqs : StartForgot(r)
    \/ \E r \in Reqs : ResumeForgot(r)
    \/ \E r \in Reqs : StartVerifyReset(r)
    \/ \E r \in Reqs : ResumeVerifyReset(r)
    \/ \E r \in Reqs : StartResend(r)
    \/ \E r \in Reqs : ResumeResend(r)

SpecResend == Init /\ [][NextResend]_vars

----------------------------------------------------------------------------
(* Two emails *)

TwoEmails == {"a@x", "b@x"}

\* the state after construction with two emails known to the clients, each
\* with or without an account at the provider
InitTwoEmails ==
    /\ now = 0
    /\ otp_request_state = EmptyDict
    /\ verified_reset_tokens = EmptyDict
    /\ session = [c \in Conns |-> EmptyDict]
    /\ accounts \in [TwoEmails -> {"none", "unverified", "confirmed"}]
    /\ password = [e \in TwoEmails |-> IF accounts[e] = "none" THEN "none" ELSE "p1"]
    /\ flag = [e \in TwoEmails |-> "None"]
    /\ otc = EmptyDict
    /\ nextCode = 1
    /\ reqs = [r \in Reqs |-> IdleReq]
    /\ lost = EmptyDict
    /\ pwUpdates = {}
    /\ verifiedSignups = {}

\* two clients, each with its own email, the first's with an account at the
\* provider and the second's without: each calls forgot_password and then,
\* once that has returned, resend_otp
ScriptEmail == [r1 |-> "a@x", r2 |-> "b@x"]

InitEnumeration ==
    /\ InitTwoEmails
    /\ accounts["a@x"] # "none"
    /\ accounts["b@x"] = "none"

\* the client of slot r sends its next request
\* (history: the resend_otp keeps how the provider answered the reset dispatch
\* of the forgot_password before it)
ReceiveScripted(r) ==
    /\ NoneDone
    /\ reqs[r].pc = "idle"
    /\ \/ /\ reqs[r].op = "none"
          /\ reqs' = [reqs EXCEPT ![r] =
                 NewReq("forgot_password", ScriptEmail[r], 1, "none", "none")]
       \/ /\ reqs[r].op = "forgot_password"
          /\ reqs' = [reqs EXCEPT ![r] =
                 [NewReq("resend_otp", ScriptEmail[r], 1, "none", "none")
                      EXCEPT !.first = reqs[r].first]]
    /\ UNCHANGED <<now, gatewayVars, providerVars, lost, pwUpdates, verifiedSignups>>

\* the response is sent (history: the slot keeps the finished request)
RespondKept(r) ==
    /\ reqs[r].pc = "done"
    /\ reqs' = [reqs EXCEPT ![r].pc = "idle"]
    /\ UNCHANGED <<now, gatewayVars, providerVars, lost, pwUpdates, verifiedSignups>>

\* forgot_password then resend_otp, for an email with an account and for one
\* without
NextEnumeration ==
    \/ \E r \in Reqs : ReceiveScripted(r)
    \/ \E r \in Reqs : RespondKept(r)
    \/ \E r \in Reqs : ProviderOtp(r)
    \/ \E r \in Reqs : StartForgot(r)
    \/ \E r \in Reqs : ResumeForgot(r)
    \/ \E r \in Reqs : StartResend(r)
    \/ \E r \in Reqs : ResumeResend(r)

SpecEnumeration == InitEnumeration /\ [][NextEnumeration]_vars

\* the operations that take an email and use the tracker or the cache
EmailOps == {"signup", "verify_signup_otp", "forgot_password",
             "verify_reset_otp", "reset_password", "resend_otp"}

\* the requests of the two clients: the first runs every operation for a@x,
\* the second asks for and verifies reset codes for b@x meanwhile
IsolationOps == [r1 |-> EmailOps, r2 |-> {"forgot_password", "verify_reset_otp"}]

\* a client sends a request for its email
ReceiveTwoEmails(r) ==
    /\ NoneDone
    /\ reqs[r].pc = "idle"
    /\ \E op \in IsolationOps[r], c \in Codes, k \in Conns :
          reqs' = [reqs EXCEPT ![r] = NewReq(op, ScriptEmail[r], c, "p1", k)]
    /\ UNCHANGED <<now, gatewayVars, providerVars, lost, pwUpdates, verifiedSignups>>

\* the operations on emails, for two emails, two requests at a time
NextIsolation ==
    \/ \E r \in Reqs : ReceiveTwoEmails(r)
    \/ \E r \in Reqs : Respond(r)
    \/ \E r \in Reqs : ProviderOtp(r)
    \/ \E r \in Reqs : ProviderVerify(r)
    \/ \E r \in Reqs : StartSignup(r)
    \/ \E r \in Reqs : ResumeSignup(r)
    \/ \E r \in Reqs : StartVerifySignup(r)
    \/ \E r \in Reqs : ResumeVerifySignup(r)
    \/ \E r \in Reqs : StartForgot(r)
    \/ \E r \in Reqs : ResumeForgot(r)
    \/ \E r \in Reqs : StartVerifyReset(r)
    \/ \E r \in Reqs : ResumeVerifyReset(r)
    \/ \E r \in Reqs : StartReset(r)
    \/ \E r \in Reqs : ResumeReset(r)
    \/ \E r \in Reqs : StartResend(r)
    \/ \E r \in Reqs : ResumeResend(r)

SpecIsolation == InitTwoEmails /\ [][NextIsolation]_vars

----------------------------------------------------------------------------
(* The request models: what pydantic does with a body before the handler runs *)

\* the characters of the model, one of each class the validators tell apart;
\* "_" is in none of the four classes
Upper == {"A"}
Lower == {"a"}
Digit == {"1"}
Special == {"!"}

\* n times the character "_"
RECURSIVE Filler(_)
Filler(n) == IF n = 0 THEN <<>> ELSE <<"_">> \o Filler(n - 1)

\* the passwords a client submits
PasswordTexts ==
    {core \o Filler(n) :
        core \in UNION {[1..m -> Upper \cup Lower \cup Digit \cup Special] :
                           m \in 0..MaxClassChars},
        n \in 0..PASSWORD_MIN_LENGTH}

\* re.search(r'[...]', v) for a character class
re_search(class, v) == \E i \in DOMAIN v : v[i] \in class

\* SignUpRequest.validate_password_strength: "ok" when it returns v, else the
\* rule of the ValueError it raises
validate_password_strength(v) ==
    IF ~re_search(Upper, v) THEN "uppercase"
    ELSE IF ~re_search(Lower, v) THEN "lowercase"
    ELSE IF ~re_search(Digit, v) THEN "digit"
    ELSE IF ~re_search(Special, v) THEN "special"
    ELSE "ok"

\* ResetPasswordRequest.validate_password_strength, on new_password
validate_new_password_strength(v) ==
    IF ~re_search(Upper, v) THEN "uppercase"
    ELSE IF ~re_search(Lower, v) THEN "lowercase"
    ELSE IF ~re_search(Digit, v) THEN "digit"
    ELSE IF ~re_search(Special, v) THEN "special"
    ELSE "ok"

\* the errors pydantic reports for the password field: the Field constraint
\* min_length first, and the validator only on a value that passed it
PasswordErrors(op, v) ==
    IF Len(v) < PASSWORD_MIN_LENGTH THEN {"min_length"}
    ELSE LET res == IF op = "signup" THEN validate_password_strength(v)
                    ELSE validate_new_password_strength(v)
         IN IF res = "ok" THEN {} ELSE {res}

\* a client posts a body to /signup or /reset-password
ReceiveBody(r) ==
    /\ NoneDone
    /\ reqs[r].pc = "idle"
    /\ \E op \in {"signup", "reset_password"}, v \in PasswordTexts :
          reqs' = [reqs EXCEPT ![r] = [IdleReq EXCEPT !.op = op, !.text = v,
                                                      !.pc = "received"]]
    /\ UNCHANGED <<now, gatewayVars, providerVars, lost, pwUpdates, verifiedSignups>>

\* the body is parsed into the request model: a RequestValidationError goes
\* to main.validation_exception_handler, else the handler is scheduled
ParseBody(r) ==
    /\ NoneDone
    /\ reqs[r].pc = "received"
    /\ LET rq == reqs[r]
           errs == PasswordErrors(rq.op, rq.text)
       IN IF errs # {}
          THEN reqs' = [reqs EXCEPT ![r] =
                           Finish([rq EXCEPT !.errors = errs], 422, "invalid_request_data")]
          ELSE \E e \in Emails, c \in Codes :
                  reqs' = [reqs EXCEPT ![r] =
                              [NewReq(rq.op, e, c, "none", "none") EXCEPT !.text = rq.text]]
    /\ UNCHANGED <<now, gatewayVars, providerVars, lost, pwUpdates, verifiedSignups>>

\* the parsing of /signup and /reset-password bodies, up to the handler
NextValidation ==
    \/ ReceiveBody("r1")
    \/ ParseBody("r1")
    \/ Respond("r1")

SpecValidation == Init /\ [][NextValidation]_vars

----------------------------------------------------------------------------
(* Properties *)

Done(r, op) == reqs[r].pc = "done" /\ reqs[r].op = op

\* the step writes the session of connection k from a provider confirmation:
\* verify_signup_otp resuming with a confirmed signup code and complete user
\* data, or signin with a user the provider returned and whose email is confirmed
SessionJustified(k) ==
    \E r \in Reqs :
       /\ reqs[r].conn = k
       /\ reqs'[r].pc = "done" /\ reqs'[r].status = 200
       /\ session'[k]["user"].email = reqs[r].email
       /\ session'[k]["user"].user_id = Uid(reqs[r].email)
       /\ \/ /\ reqs[r].op = "verify_signup_otp" /\ reqs[r].pc = "replied"
             /\ reqs[r].call = [kind |-> "verify", type |-> "signup"]
             /\ reqs[r].resp = [status |-> "ok", body |-> "full"]
          \/ /\ reqs[r].op = "signin" /\ reqs[r].pc = "queued"
             /\ accounts[reqs[r].email] = "confirmed"
             /\ password[reqs[r].email] = reqs[r].pw

\* the step only sets the data-source flag of the record already there
SessionFlagSet(k) ==
    /\ HasUser(k)
    /\ session'[k]["user"] =
           [session[k]["user"] EXCEPT !.has_selected_data_source = TRUE]

SessionWrite ==
    \A k \in Conns :
       ("user" \in DOMAIN session'[k] /\ session'[k] # session[k])
           => (SessionJustified(k) \/ SessionFlagSet(k))

SessionOwnerConfirmed ==
    \A k \in Conns :
       HasUser(k) => accounts[session[k]["user"].email] = "confirmed"

\* C1: a connection's session record comes to exist, or changes, only in a
\* step of verify_signup_otp that follows the provider's confirmation of a
\* signup code with both user id and email returned, or of signin with a
\* returned user whose email is confirmed (the only other write sets the
\* data-source flag of the record already there); the record's account is
\* confirmed at the provider in every state.
C1_SessionOnlyAfterConfirmation == []SessionOwnerConfirmed /\ [][SessionWrite]_vars

C1_Witness ==
    \E r \in Reqs : /\ Done(r, "verify_signup_otp") /\ reqs[r].status = 200
                    /\ HasUser(reqs[r].conn)

\* C3: forgot_password's status and body are the same whether the provider
\* accepts the reset dispatch (the email has a confirmed account) or rejects
\* it (it has none).
C3_ForgotSameResponse ==
    \A r \in Reqs :
       (Done(r, "forgot_password") /\ reqs[r].first \in {"ok", "c4xx"})
           => (reqs[r].status = 200 /\ reqs[r].detail = "if_account_exists")

C3_Witness ==
    \E r \in Reqs : /\ Done(r, "forgot_password") /\ reqs[r].first = "c4xx"
                    /\ accounts[reqs[r].email] = "none"
                    /\ reqs[r].status = 200

UpdateUnderValidEntry ==
    \A r \in Reqs :
       (Done(r, "reset_password") /\ reqs[r].nUpdate > 0)
           => reqs[r].updEntry = "valid"

\* a cache entry appears or changes only in a step of a request that resumes
\* with the provider's confirmation of a recovery code for that email, and it
\* holds that code's fingerprint
EntryFromConfirmation ==
    \A e \in DOMAIN verified_reset_tokens' :
       (e \notin DOMAIN verified_reset_tokens
            \/ verified_reset_tokens'[e] # verified_reset_tokens[e])
           => \E r \in Reqs :
                 /\ reqs[r].pc = "replied" /\ reqs[r].email = e
                 /\ reqs[r].call = [kind |-> "verify", type |-> "recovery"]
                 /\ reqs[r].resp.status = "ok"
                 /\ verified_reset_tokens'[e].token_hash = Sha256(reqs[r].otp)

\* C2: reset_password calls the provider's password update only while the
\* verified-reset cache holds an unexpired entry for the email whose
\* fingerprint matches the supplied code, and an entry enters the cache only
\* when the provider has confirmed a recovery code for that email.
C2_UpdateOnlyWithVerifiedEntry ==
    []UpdateUnderValidEntry /\ [][EntryFromConfirmation]_vars

C2_Witness ==
    \E r \in Reqs : /\ Done(r, "reset_password") /\ reqs[r].status = 200
                    /\ reqs[r].nVerify = 1 /\ reqs[r].nUpdate = 1

\* r is the second to finish of two reset_password requests for the same
\* email and code, both received while the cache held a valid entry for them
SecondOfTwo(r) ==
    Done(r, "reset_password") /\ reqs[r].arrValid /\ reqs[r].twin # 0

\* C5 as claimed: of two such requests exactly one updates the password and
\* returns 200, and the other returns 400.
C5_ExactlyOneSucceeds ==
    \A r \in Reqs :
       SecondOfTwo(r) =>
          \/ reqs[r].twin = 200 /\ reqs[r].status = 400 /\ reqs[r].nUpdate = 0
          \/ reqs[r].twin = 400 /\ reqs[r].status = 200 /\ reqs[r].nUpdate = 1

\* C5 as amended: at most one of the two returns 200, and the password is
\* updated at most once for the code; when one has succeeded the other finds
\* no valid entry for its code any more, re-verifies once with the provider,
\* which does not confirm the consumed code, makes no update and returns 400,
\* or 500 when the provider cannot be reached.
C5_AtMostOneSucceeds ==
    \A r \in Reqs :
       SecondOfTwo(r) =>
          /\ ~(reqs[r].twin = 200 /\ reqs[r].status = 200)
          /\ reqs[r].status = 200 => ~reqs[r].usedBefore
          /\ reqs[r].twin = 200 =>
                /\ reqs[r].check \in {"missing", "mismatched"} /\ reqs[r].nVerify = 1
                /\ reqs[r].resp.status # "ok"
                /\ reqs[r].nUpdate = 0
                /\ reqs[r].status = IF reqs[r].resp.status = "neterr" THEN 500 ELSE 400

C5_Witness ==
    \E r \in Reqs : SecondOfTwo(r) /\ reqs[r].twin = 200 /\ reqs[r].status = 400

\* C6 as claimed: once a reset_password for an email and code has updated the
\* password, a reset_password for the same email and code returns 400 and
\* makes no update.
C6_UsedCodeGets400 ==
    \A r \in Reqs :
       (Done(r, "reset_password") /\ reqs[r].usedBefore)
           => (reqs[r].status = 400 /\ reqs[r].nUpdate = 0)

\* C6 as amended: such a request makes no update and returns 400, or 500 when
\* the provider cannot be reached for the re-verification.
C6_UsedCodeRejected ==
    \A r \in Reqs :
       (Done(r, "reset_password") /\ reqs[r].usedBefore) =>
          /\ reqs[r].nUpdate = 0
          /\ reqs[r].status = IF reqs[r].resp.status = "neterr" THEN 500 ELSE 400

C6_Witness ==
    \E r \in Reqs : /\ Done(r, "reset_password") /\ reqs[r].usedBefore
                    /\ reqs[r].status = 400 /\ reqs[r].nVerify = 1

\* C7 as claimed: a reset_password that starts while the cache still holds the
\* code's entry, recorded more than OTP_EXPIRY_MINUTES ago, returns 400 and
\* makes no update.
C7_StaleEntryGets400 ==
    \A r \in Reqs :
       (Done(r, "reset_password") /\ reqs[r].stale)
           => (reqs[r].status = 400 /\ reqs[r].nUpdate = 0)

\* C7 as amended: such a request makes no update and returns 400, or 500 when
\* the provider cannot be reached for the re-verification.
C7_StaleEntryRejected ==
    \A r \in Reqs :
       (Done(r, "reset_password") /\ reqs[r].stale) =>
          /\ reqs[r].nUpdate = 0
          /\ reqs[r].status = IF reqs[r].resp.status = "neterr" THEN 500 ELSE 400

C7_Witness ==
    \E r \in Reqs : /\ Done(r, "reset_password") /\ reqs[r].stale
                    /\ reqs[r].status = 400
                    /\ reqs[r].email \notin DOMAIN verified_reset_tokens

\* C8: a reset_password for a code whose verified-reset entry a restart wiped
\* (verified, unexpired, not yet used, no new code sent since) succeeds through
\* the re-verification fallback whenever the provider answers it.
C8_ResetSurvivesRestart ==
    \A r \in Reqs :
       (Done(r, "reset_password") /\ reqs[r].lostValid /\ reqs[r].nVerify = 1
            /\ reqs[r].resp.status # "neterr")
           => reqs[r].status = 200

\* C9: reset_password calls the provider's verify exactly when the cache check
\* says missing or expired, and at most once; on mismatched it fails with 400
\* without calling the provider; on valid it makes no verify call.
C9_FallbackOnlyOnMissingOrExpired ==
    \A r \in Reqs :
       Done(r, "reset_password") =>
          /\ reqs[r].nVerify <= 1
          /\ reqs[r].nVerify = 1 <=> reqs[r].check \in {"missing", "expired"}
          /\ reqs[r].check = "mismatched" =>
                 (reqs[r].status = 400 /\ reqs[r].nVerify = 0)
          /\ reqs[r].check = "valid" => reqs[r].nVerify = 0

\* C10: resend_otp for an email with no tracker entry returns 400 and makes
\* no dispatch call, whatever the verified-reset cache, the session and the
\* provider hold.
C10_ResendNeedsTracker ==
    \A r \in Reqs :
       (Done(r, "resend_otp") /\ ~reqs[r].hadTracker)
           => (reqs[r].status = 400 /\ reqs[r].nOtp = 0)

C10_Witness ==
    \E r \in Reqs : /\ Done(r, "resend_otp") /\ ~reqs[r].hadTracker
                    /\ reqs[r].email \in DOMAIN verified_reset_tokens
                    /\ accounts[reqs[r].email] = "confirmed"
                    /\ \E k \in Conns : HasUser(k)
                    /\ reqs[r].status = 400

\* the provider type the claims give for a purpose
TypeFor(purpose) == IF purpose = "signup" THEN "signup" ELSE "recovery"

\* with no request in progress, a tracker entry next to a code the provider
\* still holds records the purpose that code was sent for
TrackerRecordsDispatch ==
    (\A r \in Reqs : reqs[r].pc \in {"idle", "queued"}) =>
       \A e \in DOMAIN otp_request_state \cap DOMAIN otc :
          otc[e].type = TypeFor(otp_request_state[e].purpose)

\* resend_otp, started with a tracker entry, calls the dispatch with the type
\* of the recorded purpose
ResendUsesRecordedPurpose ==
    \A r \in Reqs :
       (/\ reqs[r].pc = "queued" /\ reqs[r].op = "resend_otp"
        /\ reqs[r].email \in DOMAIN otp_request_state
        /\ reqs'[r].pc \notin {"queued", "idle"})
           => /\ reqs'[r].pc = "sent" /\ reqs'[r].nOtp = 1
              /\ reqs'[r].call =
                    [kind |-> "otp",
                     type |-> TypeFor(otp_request_state[reqs[r].email].purpose)]

\* when resend_otp returns, the tracker records the purpose it did before
ResendKeepsPurpose ==
    \A r \in Reqs :
       (/\ reqs[r].pc = "replied" /\ reqs[r].op = "resend_otp"
        /\ reqs'[r].pc = "done")
           => /\ reqs[r].email \in DOMAIN otp_request_state
              /\ reqs[r].email \in DOMAIN otp_request_state'
              /\ otp_request_state'[reqs[r].email].purpose =
                     otp_request_state[reqs[r].email].purpose
              /\ reqs[r].call.type =
                     TypeFor(otp_request_state'[reqs[r].email].purpose)

\* C11: after a successful dispatch of purpose p the tracker records p; a
\* resend_otp that follows calls the provider dispatch with the type of p
\* (signup -> "signup", reset -> "recovery"), and the tracker records p when
\* it returns.
C11_ResendSamePurpose ==
    /\ []TrackerRecordsDispatch
    /\ [][ResendUsesRecordedPurpose /\ ResendKeepsPurpose]_vars

C11_Witness ==
    \E r \in Reqs : /\ Done(r, "resend_otp") /\ reqs[r].status = 200
                    /\ reqs[r].call.type = "recovery"
                    /\ otp_request_state[reqs[r].email].purpose = "reset"

\* the step in which request r of operation op returns or raises
Returns(r, op) ==
    reqs[r].op = op /\ reqs[r].pc \in {"queued", "replied"} /\ reqs'[r].pc = "done"

\* C12 as claimed: a verify_signup_otp for an email and code that a
\* verify_signup_otp has already succeeded with returns 400.
C12_SecondVerifyGets400 ==
    \A r \in Reqs :
       (Done(r, "verify_signup_otp") /\ reqs[r].usedBefore) => reqs[r].status = 400

VerifySignupOnce ==
    \A r \in Reqs :
       Returns(r, "verify_signup_otp") =>
          \* it succeeds when the provider confirms the code with complete user
          \* data, and then writes the session and clears the tracker entry
          /\ reqs[r].resp = [status |-> "ok", body |-> "full"] =>
                /\ reqs'[r].status = 200
                /\ HasUser(reqs[r].conn)'
                /\ reqs[r].email \notin DOMAIN otp_request_state'
          \* it succeeds for an email and code at most once
          /\ reqs'[r].status = 200 => <<reqs[r].email, reqs[r].otp>> \notin verifiedSignups
          \* afterwards it fails and leaves the session alone
          /\ <<reqs[r].email, reqs[r].otp>> \in verifiedSignups =>
                /\ reqs'[r].status =
                       IF reqs[r].resp.status = "neterr" THEN 500 ELSE 400
                /\ session' = session

\* C12 as amended: verify_signup_otp on the code signup dispatched succeeds
\* when the provider confirms it with complete user data (writing the session
\* and clearing the tracker entry), and at most once for an email and code; a
\* later verify_signup_otp with the same email and code creates no session and
\* returns 400, or 500 when the provider cannot be reached.
C12_VerifySignupOnce == [][VerifySignupOnce]_vars

C12_Witness ==
    \E r \in Reqs : /\ Done(r, "verify_signup_otp") /\ reqs[r].usedBefore
                    /\ reqs[r].status = 400 /\ reqs[r].nVerify = 1

\* each operation verifies at the provider under its own type
VerifyTypeOfOp ==
    \A r \in Reqs :
       reqs[r].call.kind = "verify" =>
          \/ reqs[r].op = "verify_signup_otp" /\ reqs[r].call.type = "signup"
          \/ /\ reqs[r].op \in {"verify_reset_otp", "reset_password"}
             /\ reqs[r].call.type = "recovery"

\* a session written by verify_signup_otp comes from a code sent for signup;
\* a new or changed verified-reset entry comes from a code sent for recovery
CodeUsedForItsPurpose ==
    /\ \A r \in Reqs :
          (Returns(r, "verify_signup_otp") /\ session' # session)
              => reqs[r].codeType = "signup"
    /\ \A e \in DOMAIN verified_reset_tokens' :
          (e \notin DOMAIN verified_reset_tokens
               \/ verified_reset_tokens'[e] # verified_reset_tokens[e])
              => \E r \in Reqs :
                    /\ reqs[r].op \in {"verify_reset_otp", "reset_password"}
                    /\ reqs[r].email = e /\ reqs[r].pc = "replied"
                    /\ reqs[r].codeType = "recovery"
                    /\ verified_reset_tokens'[e].token_hash = Sha256(reqs[r].otp)

\* C13: verify_signup_otp verifies under type signup, verify_reset_otp and
\* reset_password under type recovery; a session verify_signup_otp writes comes
\* from a code sent for signup, a verified-reset entry from a code sent for
\* recovery, and a password update is made only under such an entry.
C13_PurposeSeparation ==
    /\ [](VerifyTypeOfOp /\ UpdateUnderValidEntry)
    /\ [][CodeUsedForItsPurpose]_vars

C13_Witness ==
    \E r \in Reqs : /\ reqs[r].op = "verify_signup_otp" /\ reqs[r].pc = "replied"
                    /\ reqs[r].resp.status = "httperr"
                    /\ reqs[r].email \in DOMAIN otc
                    /\ otc[reqs[r].email] = [code |-> reqs[r].otp, type |-> "recovery"]

\* C14: signup for an email whose account exists already re-dispatches a
\* signup code and returns 201 with the already-registered flag, whatever the
\* re-dispatch does (here: whether the provider, reachable and authorised,
\* accepts or rejects it).
C14_SignupExistingNeverFails ==
    \A r \in Reqs :
       (/\ Done(r, "signup") /\ reqs[r].stage = 2
        /\ reqs[r].resp.status \in {"ok", "c4xx"})
           => (reqs[r].status = 201 /\ reqs[r].detail = "already_registered")

\* C15: signin for a user the provider returns with no email confirmation
\* returns 403, not 400, and leaves the session as it was.
C15_UnconfirmedGets403 ==
    [][\A r \in Reqs :
          (/\ Returns(r, "signin") /\ reqs'[r].out = "user"
           /\ accounts[reqs[r].email] # "confirmed")
              => (reqs'[r].status = 403 /\ session' = session)]_vars

C15_Witness ==
    \E r \in Reqs : /\ Done(r, "signin") /\ reqs[r].out = "user"
                    /\ accounts[reqs[r].email] = "unverified"
                    /\ reqs[r].status = 403

\* C16: signin returns the same 400 and the same body for an email with no
\* account and for an account with another password, and leaves the session
\* as it was.
C16_SigninSameRejection ==
    [][\A r \in Reqs :
          (/\ Returns(r, "signin")
           /\ \/ accounts[reqs[r].email] = "none"
              \/ password[reqs[r].email] # reqs[r].pw)
              => /\ reqs'[r].status = 400
                 /\ reqs'[r].detail = "invalid_email_or_password"
                 /\ session' = session]_vars

C16_Witness ==
    \E r \in Reqs : /\ Done(r, "signin")
                    /\ accounts[reqs[r].email] = "confirmed"
                    /\ password[reqs[r].email] # reqs[r].pw
                    /\ reqs[r].status = 400

\* C17: when the provider confirms the code but its result lacks the user
\* payload, the user id or the email, verify_signup_otp returns 500, not the
\* 400 of a wrong code, and leaves the session as it was.
C17_IncompleteUserIs500 ==
    [][\A r \in Reqs :
          (/\ Returns(r, "verify_signup_otp") /\ reqs[r].resp.status = "ok"
           /\ reqs[r].resp.body \in {"nouser", "noid", "noemail"})
              => (reqs'[r].status = 500 /\ session' = session)]_vars

C17_Witness ==
    \E r \in Reqs : /\ Done(r, "verify_signup_otp")
                    /\ reqs[r].resp = [status |-> "ok", body |-> "noemail"]
                    /\ reqs[r].status = 500 /\ ~HasUser(reqs[r].conn)

\* C18: when verify_reset_otp returns after the provider confirmed the code,
\* the verified-reset cache holds an entry for the email with the code's
\* fingerprint and the tracker has no entry for it; after an absent result it
\* returns 400 and both dicts are as they were.
C18_VerifyResetEffects ==
    [][\A r \in Reqs :
          Returns(r, "verify_reset_otp") =>
             /\ reqs[r].resp.status = "ok" =>
                   /\ reqs'[r].status = 200
                   /\ reqs[r].email \in DOMAIN verified_reset_tokens'
                   /\ verified_reset_tokens'[reqs[r].email] =
                          [token_hash |-> Sha256(reqs[r].otp),
                           expires |-> now + OTP_EXPIRY_MINUTES]
                   /\ reqs[r].email \notin DOMAIN otp_request_state'
             /\ reqs[r].resp.status = "httperr" =>
                   /\ reqs'[r].status = 400
                   /\ verified_reset_tokens' = verified_reset_tokens
                   /\ otp_request_state' = otp_request_state]_vars

C18_Witness ==
    \E r \in Reqs : /\ Done(r, "verify_reset_otp") /\ reqs[r].status = 200
                    /\ reqs[r].email \in DOMAIN verified_reset_tokens
                    /\ verified_reset_tokens[reqs[r].email].token_hash
                           = Sha256(reqs[r].otp)
                    /\ reqs[r].email \notin DOMAIN otp_request_state

\* C19: a reset_password that holds a valid verified-reset entry and finds no
\* provider user for the email returns 404, does not call the password
\* update, and makes no provider call after the one lookup.
C19_NoUserIs404 ==
    \A r \in Reqs :
       (Done(r, "reset_password") /\ reqs[r].out = "notfound") =>
          /\ reqs[r].status = 404
          /\ reqs[r].nUpdate = 0 /\ reqs[r].nLookup = 1 /\ reqs[r].nOtp = 0
          /\ reqs[r].nVerify = IF reqs[r].check = "valid" THEN 0 ELSE 1
          /\ <<reqs[r].email, reqs[r].otp>> \in pwUpdates => reqs[r].usedBefore

C19_Witness ==
    \E r \in Reqs : /\ Done(r, "reset_password") /\ reqs[r].out = "notfound"
                    /\ reqs[r].check = "valid" /\ reqs[r].status = 404
                    /\ ensure_reset_token_is_valid(verified_reset_tokens,
                           reqs[r].email, reqs[r].otp) = "valid"

\* C20: a successful select_data_source changes only has_selected_data_source
\* of the session record: user_id, email, role, name and department are as
\* before; when the provider update fails it returns 500 and the session is
\* as it was.
C20_PatchChangesOnlyFlag ==
    [][\A r \in Reqs :
          (Returns(r, "select_data_source") /\ HasUser(reqs[r].conn)) =>
             LET k == reqs[r].conn
                 old == session[k]["user"]
             IN /\ reqs'[r].out = "ok" =>
                      /\ reqs'[r].status = 200
                      /\ DOMAIN session'[k] = DOMAIN session[k]
                      /\ session'[k]["user"].has_selected_data_source = TRUE
                      /\ session'[k]["user"].user_id = old.user_id
                      /\ session'[k]["user"].email = old.email
                      /\ session'[k]["user"].role = old.role
                      /\ session'[k]["user"].name = old.name
                      /\ session'[k]["user"].department = old.department
                      /\ \A c \in Conns \ {k} : session'[c] = session[c]
                /\ reqs'[r].out = "exception" =>
                      (reqs'[r].status = 500 /\ session' = session)]_vars

C20_Witness ==
    \E r \in Reqs : /\ Done(r, "select_data_source") /\ reqs[r].out = "ok"
                    /\ reqs[r].status = 200
                    /\ session[reqs[r].conn]["user"].has_selected_data_source
                    /\ session[reqs[r].conn]["user"].role = "db_role"

\* C21: a signout that returns 200 leaves its connection without any session
\* record; /me returns 401 exactly when its connection holds no user; a
\* connection without a user gains one only by a verify_signup_otp or a signin
\* on it returning 200; /me and signout on a connection without a user return
\* 401 and change neither the gateway's nor the provider's state.
C21_SignoutEndsSession ==
    [][/\ \A r \in Reqs :
            (Returns(r, "signout") /\ reqs'[r].status = 200)
                => session'[reqs[r].conn] = EmptyDict
       /\ \A r \in Reqs :
            Returns(r, "me") => (reqs'[r].status = 401 <=> ~HasUser(reqs[r].conn))
       /\ \A k \in Conns :
            (~HasUser(k) /\ "user" \in DOMAIN session'[k]) =>
                \E r \in Reqs :
                   /\ reqs[r].conn = k
                   /\ reqs[r].op \in {"verify_signup_otp", "signin"}
                   /\ reqs'[r].pc = "done" /\ reqs'[r].status = 200
       /\ \A r \in Reqs :
            ((Returns(r, "me") \/ Returns(r, "signout")) /\ ~HasUser(reqs[r].conn))
                => /\ reqs'[r].status = 401
                   /\ UNCHANGED <<gatewayVars, providerVars>>
      ]_vars

\* /me answers 401 on a connection that held a session before: the provider's
\* flag is set by select_data_source only, which needs a session, and only
\* signout removes one
C21_Witness ==
    /\ Done("r1", "me") /\ reqs["r1"].status = 401
    /\ session[reqs["r1"].conn] = EmptyDict
    /\ \E e \in Emails : flag[e] = "True"

\* C22: a signin whose credentials the provider accepts for a confirmed email
\* returns 200 and stores a session for that user whatever the users-table
\* lookup does: role, name and department are the record's when the lookup
\* returned a record, and the provider metadata's when it returned nothing or
\* raised.
C22_SigninSurvivesLookupFailure ==
    \A r \in Reqs :
       (/\ Done(r, "signin") /\ reqs[r].out = "user"
        /\ accounts[reqs[r].email] = "confirmed") =>
          /\ reqs[r].status = 200
          /\ HasUser(reqs[r].conn)
          /\ LET u == session[reqs[r].conn]["user"]
                 src == IF reqs[r].db = "record" THEN "db" ELSE "meta"
             IN /\ u.user_id = Uid(reqs[r].email) /\ u.email = reqs[r].email
                /\ u.role = src \o "_role" /\ u.name = src \o "_name"
                /\ u.department = src \o "_department"

C22_Witness ==
    \E r \in Reqs :
       /\ Done(r, "signin") /\ reqs[r].status = 200 /\ reqs[r].db = "exception"
       /\ session[reqs[r].conn]["user"].role = "meta_role"

\* the rules a password violates
ViolatedRules(v) ==
    {rule \in {"min_length", "uppercase", "lowercase", "digit", "special"} :
        CASE rule = "min_length" -> Len(v) < PASSWORD_MIN_LENGTH
          [] rule = "uppercase" -> \A i \in DOMAIN v : v[i] # "A"
          [] rule = "lowercase" -> \A i \in DOMAIN v : v[i] # "a"
          [] rule = "digit" -> \A i \in DOMAIN v : v[i] # "1"
          [] OTHER -> \A i \in DOMAIN v : v[i] # "!"}

\* C23: the 422 of /signup and /reset-password reports exactly the rules the
\* password violates, among uppercase, lowercase, digit, special character and
\* minimum length.
C23_RejectionListsEveryRule ==
    \A r \in Reqs :
       (reqs[r].pc = "done" /\ reqs[r].status = 422)
           => reqs[r].errors = ViolatedRules(reqs[r].text)

\* C24: when reset_password runs its check against a cache entry that is past
\* its expiry, the outcome is expired and the entry leaves the cache, whether
\* or not the submitted code matches the entry's fingerprint.
C24_ExpiryBeforeFingerprint ==
    [][\A r \in Reqs :
          LET e == reqs[r].email
          IN (/\ reqs[r].op = "reset_password" /\ reqs[r].pc = "queued"
              /\ reqs'[r].pc \in {"sent", "done"}
              /\ e \in DOMAIN verified_reset_tokens
              /\ now > verified_reset_tokens[e].expires)
                 => /\ reqs'[r].check = "expired"
                    /\ e \notin DOMAIN verified_reset_tokens']_vars

\* C25: whenever the verified-reset cache gains an entry or has one replaced,
\* the step is a verify_reset_otp or a reset_password resuming from the
\* provider's verification for that email, and the entry expires
\* OTP_EXPIRY_MINUTES after the time of that step.
C25_ExpiryCountsFromRecording ==
    [][\A e \in Emails :
          (/\ e \in DOMAIN verified_reset_tokens'
           /\ (e \in DOMAIN verified_reset_tokens =>
                   verified_reset_tokens'[e] # verified_reset_tokens[e]))
              => /\ verified_reset_tokens'[e].expires = now + OTP_EXPIRY_MINUTES
                 /\ \E r \in Reqs :
                       /\ reqs[r].email = e /\ reqs[r].pc = "replied"
                       /\ reqs[r].op \in {"verify_reset_otp", "reset_password"}
                       /\ reqs[r].resp.status = "ok"
                       /\ reqs'[r].pc = "done"]_vars

\* the fallback of reset_password has recorded an entry after the clock moved
\* on (the update did not follow: no user was found)
C25_Witness ==
    \E r \in Reqs :
       /\ Done(r, "reset_password") /\ reqs[r].nVerify = 1 /\ reqs[r].status = 404
       /\ now >= OTP_EXPIRY_MINUTES
       /\ reqs[r].email \in DOMAIN verified_reset_tokens
       /\ verified_reset_tokens[reqs[r].email].token_hash = Sha256(reqs[r].otp)
       /\ verified_reset_tokens[reqs[r].email].expires = now + OTP_EXPIRY_MINUTES

\* C26: once every request has completed, the tracker's purpose for an email
\* is the purpose of the code the provider still holds for it, that is, of the
\* dispatch the provider processed last.
C26_LastDispatchWins ==
    \A e \in Emails :
       (/\ \A r \in Reqs : reqs[r].pc = "idle"
        /\ e \in DOMAIN otp_request_state /\ e \in DOMAIN otc)
           => PURPOSE_TO_SUPABASE_TYPE[otp_request_state[e].purpose] = otc[e].type

\* C27: a reset_password for code A that returns while the cache holds the
\* unexpired entry a verify_reset_otp recorded for a newer code B during A's
\* fallback leaves that entry in the cache as it is (the provider issues its
\* codes in increasing order).
C27_VerifiedEntryNotLost ==
    [][\A r \in Reqs :
          LET e == reqs[r].email
          IN (/\ Returns(r, "reset_password")
              /\ reqs[r].overtaken > reqs[r].otp
              /\ e \in DOMAIN verified_reset_tokens
              /\ verified_reset_tokens[e].token_hash = Sha256(reqs[r].overtaken)
              /\ now <= verified_reset_tokens[e].expires)
                 => /\ e \in DOMAIN verified_reset_tokens'
                    /\ verified_reset_tokens'[e] = verified_reset_tokens[e]]_vars

\* C28: a signup or resend_otp that made its dispatch answers by the provider's
\* response: success on 2xx, 500 on 401/403, the rejection's 400 exactly when
\* the provider answered another 4xx, and a 5xx on a network failure, a
\* timeout or a provider 5xx.
C28_DispatchClassification ==
    \A r \in Reqs :
       (/\ reqs[r].pc = "done" /\ reqs[r].op \in {"signup", "resend_otp"}
        /\ reqs[r].nOtp = 1) =>
          /\ reqs[r].resp.status = "ok" => reqs[r].status \in {200, 201}
          /\ reqs[r].resp.status = "unauth" => reqs[r].status = 500
          /\ reqs[r].status = 400 <=> reqs[r].resp.status = "c4xx"
          /\ reqs[r].resp.status \in {"neterr", "s5xx"} => reqs[r].status >= 500

\* C29: the tracker gains or changes an entry for an email only in the step in
\* which a handler resumes from a dispatch for that email that the provider
\* answered with success; a handler that resumes from a dispatch answered
\* otherwise leaves the tracker as it was; every entry's purpose is signup or
\* reset.
C29_TrackerOnlyOnSuccess ==
    [][/\ \A e \in Emails :
            (/\ e \in DOMAIN otp_request_state'
             /\ (e \in DOMAIN otp_request_state =>
                     otp_request_state'[e] # otp_request_state[e])) =>
                \E r \in Reqs :
                   /\ reqs[r].email = e /\ reqs[r].pc = "replied"
                   /\ reqs[r].call.kind = "otp" /\ reqs[r].resp.status = "ok"
                   /\ reqs'[r].pc = "done"
       /\ \A r \in Reqs :
            (/\ reqs[r].pc = "replied" /\ reqs'[r].pc \in {"sent", "done"}
             /\ reqs[r].call.kind = "otp" /\ reqs[r].resp.status # "ok")
                => otp_request_state' = otp_request_state
       /\ \A e \in DOMAIN otp_request_state' :
            otp_request_state'[e].purpose \in {"signup", "reset"}
      ]_vars

\* a rejected dispatch has left an existing tracker entry as it was
C29_Witness ==
    \E r \in Reqs :
       /\ reqs[r].pc = "done" /\ reqs[r].op \in {"signup", "resend_otp"}
       /\ reqs[r].nOtp = 1 /\ reqs[r].resp.status = "c4xx" /\ reqs[r].status = 400
       /\ reqs[r].email \in DOMAIN otp_request_state

\* C30: when forgot_password's second dispatch has sent a signup code, the
\* provider had rejected the reset dispatch with a 4xx and the account exists
\* and is unverified; none is sent after a reset dispatch that succeeded or
\* failed as unauthorized or unavailable.
C30_ForgotSignupOnlyForUnverified ==
    \A r \in Reqs :
       (/\ Done(r, "forgot_password") /\ reqs[r].stage = 2
        /\ reqs[r].resp.status = "ok") =>
          /\ reqs[r].first = "c4xx"
          /\ accounts[reqs[r].email] = "unverified"

\* the provider calls a request has made stay within its operation's budget
CallsWithinBudget(rq) ==
    CASE rq.op = "signup" ->
            /\ rq.nCreate <= 1 /\ rq.nOtp <= 1
            /\ rq.nVerify = 0 /\ rq.nLookup = 0 /\ rq.nUpdate = 0
      [] rq.op = "forgot_password" ->
            /\ rq.nOtp <= 2
            /\ rq.nOtp = 2 => (rq.stage = 2 /\ rq.call.type = "signup" /\ rq.first # "ok")
            /\ rq.nCreate = 0 /\ rq.nVerify = 0 /\ rq.nLookup = 0 /\ rq.nUpdate = 0
      [] rq.op = "resend_otp" ->
            /\ rq.nOtp <= 1
            /\ rq.nCreate = 0 /\ rq.nVerify = 0 /\ rq.nLookup = 0 /\ rq.nUpdate = 0
      [] rq.op \in {"verify_signup_otp", "verify_reset_otp"} ->
            /\ rq.nVerify <= 1
            /\ rq.nCreate = 0 /\ rq.nOtp = 0 /\ rq.nLookup = 0 /\ rq.nUpdate = 0
      [] rq.op = "reset_password" ->
            /\ rq.nVerify <= 1 /\ rq.nLookup <= 1 /\ rq.nUpdate <= 1
            /\ rq.nCreate = 0 /\ rq.nOtp = 0
      [] OTHER -> TRUE

\* C31 as claimed: every request stays within its budget of provider calls
\* (signup one create_user and one dispatch, forgot_password one reset and one
\* signup dispatch, resend_otp and the verify operations one call,
\* reset_password one verification, one lookup and one update), and a request
\* whose awaited call timed out returns a 5xx.
C31_NoRetryAndTimeoutIs5xx ==
    \A r \in Reqs :
       /\ CallsWithinBudget(reqs[r])
       /\ (reqs[r].pc = "done" /\ reqs[r].resp.status = "neterr")
              => reqs[r].status >= 500

\* C31 as amended: the same, except that a timeout of forgot_password's
\* signup dispatch is swallowed and the request returns 200.
C31_NoRetry ==
    \A r \in Reqs :
       /\ CallsWithinBudget(reqs[r])
       /\ (reqs[r].pc = "done" /\ reqs[r].resp.status = "neterr") =>
              IF reqs[r].op = "forgot_password" /\ reqs[r].stage = 2
              THEN reqs[r].status = 200
              ELSE reqs[r].status >= 500
       /\ (Done(r, "forgot_password") /\ reqs[r].first = "neterr")
              => (reqs[r].status >= 500 /\ reqs[r].nOtp = 1)

\* a verify_reset_otp whose one call timed out has returned 500
C31_Witness ==
    \E r \in Reqs :
       /\ Done(r, "verify_reset_otp") /\ reqs[r].resp.status = "neterr"
       /\ reqs[r].nVerify = 1 /\ reqs[r].status = 500

\* the client of slot r has had both its answers, and the provider answered
\* each of its dispatches with success or a rejection
ScriptOver(r) ==
    /\ reqs[r].pc = "idle" /\ reqs[r].op = "resend_otp"
    /\ reqs[r].first \in {"ok", "c4xx"}
    /\ reqs[r].resp.status \in {"none", "ok", "c4xx"}

\* C32: forgot_password followed by resend_otp gives the email with an account
\* and the email without one the same statuses and bodies (forgot_password
\* having answered both with its one 200).
C32_ResendHidesExistence ==
    (ScriptOver("r1") /\ ScriptOver("r2")) =>
        /\ reqs["r1"].status = reqs["r2"].status
        /\ reqs["r1"].detail = reqs["r2"].detail

\* C33: a verify_signup_otp that returns an error (400, or 500 for a missing
\* user payload, incomplete user data or an unavailable provider) leaves the
\* tracker as it was.
C33_VerifySignupErrorKeepsTracker ==
    [][\A r \in Reqs :
          (Returns(r, "verify_signup_otp") /\ reqs'[r].status # 200)
              => otp_request_state' = otp_request_state]_vars

\* C34: when a reset_password that reached its user lookup returns 404 or 500,
\* the cache holds an entry for its email that matches its code and has not
\* expired, so the check of a retry passes at once; and a handler's step
\* removes an email's entry only when it is a reset_password for that email
\* that returns 200 or finds the entry expired.
C34_FailedResetKeepsEntry ==
    [][\A r \in Reqs :
          LET e == reqs[r].email
          IN /\ (/\ Returns(r, "reset_password") /\ reqs'[r].nLookup = 1
                 /\ reqs'[r].status \in {404, 500}) =>
                    /\ e \in DOMAIN verified_reset_tokens'
                    /\ verified_reset_tokens'[e].token_hash = Sha256(reqs[r].otp)
                    /\ now' <= verified_reset_tokens'[e].expires
             /\ (/\ reqs[r].pc \in {"queued", "replied"}
                 /\ reqs'[r].pc \in {"sent", "done"}
                 /\ e \in DOMAIN verified_reset_tokens
                 /\ e \notin DOMAIN verified_reset_tokens') =>
                    /\ reqs[r].op = "reset_password"
                    /\ \/ reqs'[r].pc = "done" /\ reqs'[r].status = 200
                       \/ reqs'[r].check = "expired"]_vars

\* a reset_password whose check passed has returned 404 with the entry kept
C34_Witness ==
    \E r \in Reqs :
       /\ Done(r, "reset_password") /\ reqs[r].check = "valid"
       /\ reqs[r].nVerify = 0 /\ reqs[r].status = 404
       /\ reqs[r].email \in DOMAIN verified_reset_tokens

\* C35: a resend_otp that was awaiting its dispatch when a verification for
\* its email succeeded and cleared the tracker entry does not give the email
\* a tracker entry again when it returns.
C35_ResendInFlightKeepsTrackerClear ==
    [][\A r \in Reqs :
          (/\ Returns(r, "resend_otp") /\ reqs[r].overtaken # 0
           /\ reqs[r].email \notin DOMAIN otp_request_state)
              => reqs[r].email \notin DOMAIN otp_request_state']_vars


\* C36: a step of a handler working for one email leaves the tracker entry and
\* the verified-reset cache entry of every other email as they were, whether
\* the handler goes on to the provider, succeeds or fails, and whatever the
\* other request is doing meanwhile
C36_PerEmailIsolation ==
    [][\A r \in Reqs :
          (reqs[r].pc \in {"queued", "replied"} /\ reqs'[r].pc \in {"sent", "done"}) =>
             \A e2 \in TwoEmails \ {reqs[r].email} :
                /\ (e2 \in DOMAIN otp_request_state') <=> (e2 \in DOMAIN otp_request_state)
                /\ e2 \in DOMAIN otp_request_state =>
                      otp_request_state'[e2] = otp_request_state[e2]
                /\ (e2 \in DOMAIN verified_reset_tokens') <=> (e2 \in DOMAIN verified_reset_tokens)
                /\ e2 \in DOMAIN verified_reset_tokens =>
                      verified_reset_tokens'[e2] = verified_reset_tokens[e2]]_vars

\* a password reset for a@x went through, popping its cache entry, while b@x
\* holds a verified-reset cache entry of its own, which is still there
C36_Witness ==
    /\ Done("r1", "reset_password")
    /\ reqs["r1"].status = 200
    /\ reqs["r1"].email = "a@x"
    /\ "a@x" \notin DOMAIN verified_reset_tokens
    /\ "b@x" \in DOMAIN verified_reset_tokens

====
